---------------------------- MODULE Spec2Model ----------------------------
(***************************************************************************)
(* A model of the Dexter x402 facilitator (src/unnamed/part_001, the       *)
(* server with settlement telemetry; src/src/server.ts is the same server  *)
(* without the telemetry).                                                 *)
(*                                                                         *)
(* Conventions of the model:                                               *)
(*   - a JavaScript string that the code inspects, trims or concatenates   *)
(*     is a sequence of one-character strings: "1.5" is <<"1",".","5">>;   *)
(*   - a JavaScript number n is the integer 2n, so that halves exist:      *)
(*     6 is 12, 1.5 is 3, -1 is -2; a bigint is its integer;               *)
(*   - a JavaScript value is a record with a "type" field (JsUndefined,    *)
(*     JsNumber, JsString, ...);                                           *)
(*   - time is in milliseconds from an arbitrary origin.                   *)
(***************************************************************************)
EXTENDS Integers, Sequences, FiniteSets, TLC

(***************************************************************************)
(* Bounds of the model.                                                    *)
(***************************************************************************)
\* requests the server receives in one run
MaxRequests == 2
\* record calls in one run of the aggregator alone
MaxRecords == 3

(***************************************************************************)
(* Program constants.                                                      *)
(***************************************************************************)
DEFAULT_DECIMALS == 6
MS_IN_DAY == 24 * 60 * 60 * 1000

(***************************************************************************)
(* JavaScript values.                                                      *)
(***************************************************************************)
JsUndefined == [type |-> "undefined"]
JsNull == [type |-> "null"]
\* the number h / 2
JsNumber(h) == [type |-> "number", num |-> h]
\* a number that is not finite (NaN, Infinity), printed as text
JsNonFinite(text) == [type |-> "nonfinite", text |-> text]
JsBigInt(n) == [type |-> "bigint", num |-> n]
JsString(text) == [type |-> "string", text |-> text]
\* an object read as an asset: whether it has an address key, and its fields
JsAsset(hasAddress, address, decimals) ==
    [type |-> "object", hasAddress |-> hasAddress, address |-> address, decimals |-> decimals]

IsInteger(h) == h % 2 = 0

(***************************************************************************)
(* Strings.                                                                *)
(***************************************************************************)
DigitChars == <<"0", "1", "2", "3", "4", "5", "6", "7", "8", "9">>
HexChars == <<"a", "b", "c", "d", "e", "f">>
UpperHexChars == <<"A", "B", "C", "D", "E", "F">>

RECURSIVE NatToString(_)
\* Number.prototype.toString / BigInt.prototype.toString of a natural
NatToString(n) ==
    IF n < 10 THEN <<DigitChars[n + 1]>>
    ELSE NatToString(n \div 10) \o <<DigitChars[(n % 10) + 1]>>

\* bigint.toString()
BigIntToString(n) == IF n < 0 THEN <<"-">> \o NatToString(-n) ELSE NatToString(n)

\* String(number) for the number h / 2
NumberToString(h) ==
    LET abs == IF h < 0 THEN -h ELSE h
        body == NatToString(abs \div 2) \o (IF IsInteger(h) THEN <<>> ELSE <<".", "5">>)
    IN IF h < 0 THEN <<"-">> \o body ELSE body

IsSpace(c) == c = " "

RECURSIVE TrimStart(_)
TrimStart(s) == IF s # <<>> /\ IsSpace(Head(s)) THEN TrimStart(Tail(s)) ELSE s

RECURSIVE TrimEnd(_)
TrimEnd(s) ==
    IF s # <<>> /\ IsSpace(s[Len(s)]) THEN TrimEnd(SubSeq(s, 1, Len(s) - 1)) ELSE s

\* String.prototype.trim
Trim(s) == TrimEnd(TrimStart(s))

\* the value of character c as a digit of the given radix, -1 when it is none
DigitValue(c, radix) ==
    LET v == IF \E d \in 1..10 : DigitChars[d] = c
               THEN (CHOOSE d \in 1..10 : DigitChars[d] = c) - 1
             ELSE IF \E d \in 1..6 : HexChars[d] = c
               THEN (CHOOSE d \in 1..6 : HexChars[d] = c) + 9
             ELSE IF \E d \in 1..6 : UpperHexChars[d] = c
               THEN (CHOOSE d \in 1..6 : UpperHexChars[d] = c) + 9
             ELSE -1
    IN IF v < radix THEN v ELSE -1

AllDigits(s, radix) == s # <<>> /\ \A k \in 1..Len(s) : DigitValue(s[k], radix) >= 0

RECURSIVE DigitsValue(_, _)
DigitsValue(s, radix) ==
    IF s = <<>> THEN 0
    ELSE DigitsValue(SubSeq(s, 1, Len(s) - 1), radix) * radix + DigitValue(s[Len(s)], radix)

\* the radix a literal's prefix names (0x, 0o, 0b), 0 when it has none
PrefixRadix(s) ==
    IF Len(s) >= 2 /\ s[1] = "0"
    THEN IF s[2] \in {"x", "X"} THEN 16
         ELSE IF s[2] \in {"o", "O"} THEN 8
         ELSE IF s[2] \in {"b", "B"} THEN 2
         ELSE 0
    ELSE 0

\* BigInt(text) for a string: [ok, value]; ok is FALSE where BigInt throws a
\* SyntaxError.  StringToBigInt: white space trimmed, then the empty string
\* (0n), a signed decimal literal, or an unsigned 0x / 0o / 0b literal.
StringToBigInt(text) ==
    LET s == Trim(text)
        radix == PrefixRadix(s)
        signed == s # <<>> /\ s[1] \in {"-", "+"}
        digits == IF signed THEN Tail(s) ELSE s
    IN IF s = <<>> THEN [ok |-> TRUE, value |-> 0]
       ELSE IF radix # 0
       THEN IF AllDigits(SubSeq(s, 3, Len(s)), radix)
            THEN [ok |-> TRUE, value |-> DigitsValue(SubSeq(s, 3, Len(s)), radix)]
            ELSE [ok |-> FALSE, value |-> 0]
       ELSE IF AllDigits(digits, 10)
       THEN [ok |-> TRUE,
             value |-> IF s[1] = "-" THEN -DigitsValue(digits, 10) ELSE DigitsValue(digits, 10)]
       ELSE [ok |-> FALSE, value |-> 0]

\* Math.trunc of the number h / 2
MathTrunc(h) == IF h >= 0 THEN h \div 2 ELSE -((-h) \div 2)

\* String(raw) for a value that is neither null, undefined, bigint nor a finite number
ToText(raw) ==
    IF raw.type \in {"string", "nonfinite"} THEN raw.text
    ELSE <<"[", "o", "b", "j", "e", "c", "t", " ", "O", "b", "j", "e", "c", "t", "]">>

(***************************************************************************)
(* The amount codec.                                                       *)
(***************************************************************************)
NoAmount == [ok |-> FALSE, value |-> 0]

\* safeParseAtomic: [ok, value], ok FALSE for the code's null
safeParseAtomic(raw) ==
    IF raw.type \in {"null", "undefined"} THEN NoAmount
    ELSE IF raw.type = "bigint" THEN [ok |-> TRUE, value |-> raw.num]
    ELSE IF raw.type = "number" THEN [ok |-> TRUE, value |-> MathTrunc(raw.num)]
    ELSE IF Trim(ToText(raw)) = <<>> THEN NoAmount
    ELSE StringToBigInt(Trim(ToText(raw)))

RECURSIVE Pow10(_)
Pow10(k) == IF k = 0 THEN 1 ELSE 10 * Pow10(k - 1)

\* a variant of PadStart: no padding
PadStartNone(s, width) == s

RECURSIVE PadStart(_, _)
\* String.prototype.padStart(width, "0")
PadStart(s, width) == IF Len(s) >= width THEN s ELSE PadStart(<<"0">> \o s, width)

RECURSIVE StripTrailingZeros(_)
\* .replace(/0+$/, "")
StripTrailingZeros(s) ==
    IF s # <<>> /\ s[Len(s)] = "0" THEN StripTrailingZeros(SubSeq(s, 1, Len(s) - 1)) ELSE s

\* formatAtomicAmount(amountAtomic, decimals), decimals the number h / 2:
\* [ok, text], ok FALSE where BigInt(decimals) throws a RangeError
formatAtomicAmount(amountAtomic, decimals) ==
    IF decimals <= 0 THEN [ok |-> TRUE, text |-> BigIntToString(amountAtomic)]
    ELSE IF ~IsInteger(decimals) THEN [ok |-> FALSE, text |-> <<>>]
    ELSE LET places == decimals \div 2
             divisor == Pow10(places)
             negative == amountAtomic < 0
             abs == IF negative THEN -amountAtomic ELSE amountAtomic
             whole == abs \div divisor
             fraction == abs % divisor
             padded == StripTrailingZeros(PadStart(NatToString(fraction), places))
             base == IF padded # <<>> THEN NatToString(whole) \o <<".">> \o padded
                     ELSE NatToString(whole)
         IN [ok |-> TRUE, text |-> IF negative THEN <<"-">> \o base ELSE base]

(***************************************************************************)
(* The asset resolver.                                                     *)
(***************************************************************************)
Unknown == <<"u", "n", "k", "n", "o", "w", "n">>

\* a payment requirement as PaymentRequirementsSchema.parse returns it: the
\* fields the server reads
Requirement(network, asset, assetDecimals, maxAmountRequired) ==
    [network |-> network, asset |-> asset, extra |-> [assetDecimals |-> assetDecimals],
     maxAmountRequired |-> maxAmountRequired]

\* String(address ?? "unknown")
AddressToString(address) ==
    IF address.type \in {"null", "undefined"} THEN Unknown
    ELSE IF address.type = "number" THEN NumberToString(address.num)
    ELSE IF address.type = "bigint" THEN BigIntToString(address.num)
    ELSE ToText(address)

\* a variant of resolveAssetInfo: a structured asset's own decimals come
\* before the override
resolveAssetInfoOwnDecimalsFirst(paymentRequirements) ==
    LET assetField == paymentRequirements.asset
        extra == paymentRequirements.extra
        hasExtraDecimals == extra.assetDecimals.type = "number"
        default == 2 * DEFAULT_DECIMALS
    IN IF assetField.type = "object" /\ assetField.hasAddress
       THEN [asset |-> AddressToString(assetField.address),
             decimals |-> IF assetField.decimals.type = "number"
                          THEN assetField.decimals.num
                          ELSE IF hasExtraDecimals THEN extra.assetDecimals.num
                          ELSE default]
       ELSE IF assetField.type = "string" /\ Len(Trim(assetField.text)) > 0
       THEN [asset |-> assetField.text,
             decimals |-> IF hasExtraDecimals THEN extra.assetDecimals.num ELSE default]
       ELSE [asset |-> Unknown,
             decimals |-> IF hasExtraDecimals THEN extra.assetDecimals.num ELSE default]

\* resolveAssetInfo: [asset, decimals].  The numbers given as decimals are
\* finite ones.
resolveAssetInfo(paymentRequirements) ==
    LET assetField == paymentRequirements.asset
        extra == paymentRequirements.extra
        hasExtraDecimals == extra.assetDecimals.type = "number"
        default == 2 * DEFAULT_DECIMALS
    IN IF assetField.type = "object" /\ assetField.hasAddress
       THEN [asset |-> AddressToString(assetField.address),
             decimals |-> IF hasExtraDecimals THEN extra.assetDecimals.num
                          ELSE IF assetField.decimals.type = "number"
                          THEN assetField.decimals.num
                          ELSE default]
       ELSE IF assetField.type = "string" /\ Len(Trim(assetField.text)) > 0
       THEN [asset |-> assetField.text,
             decimals |-> IF hasExtraDecimals THEN extra.assetDecimals.num ELSE default]
       ELSE [asset |-> Unknown,
             decimals |-> IF hasExtraDecimals THEN extra.assetDecimals.num ELSE default]

(***************************************************************************)
(* The settlement window aggregator.  The window is the sequence of the    *)
(* retained entries, oldest insertion first.                               *)
(***************************************************************************)
SettlementEntry(timestamp, asset, decimals, amountAtomic) ==
    [timestamp |-> timestamp, asset |-> asset, decimals |-> decimals,
     amountAtomic |-> amountAtomic]

\* a variant of pruneLoop: `if` where the code has `while`
pruneLoopOnce(window, cutoff) ==
    IF window # <<>> /\ Head(window).timestamp < cutoff THEN Tail(window) ELSE window

RECURSIVE pruneLoopInclusive(_, _)
\* a variant of pruneLoop: `<=` where the code has `<`
pruneLoopInclusive(window, cutoff) ==
    IF window # <<>> /\ Head(window).timestamp <= cutoff
    THEN pruneLoopInclusive(Tail(window), cutoff)
    ELSE window

RECURSIVE pruneLoop(_, _)
\* while (window.length && window[0].timestamp < cutoff) window.shift()
pruneLoop(window, cutoff) ==
    IF window # <<>> /\ Head(window).timestamp < cutoff
    THEN pruneLoop(Tail(window), cutoff)
    ELSE window

\* pruneSettlementWindow(now) on the given window
pruneSettlementWindow(window, now) == pruneLoop(window, now - MS_IN_DAY)

\* a variant of totalsKey: the asset alone
totalsKeyAssetOnly(entry) == entry.asset

\* the key of an entry's total: `${entry.asset}|${entry.decimals}`
totalsKey(entry) == entry.asset \o <<"|">> \o NumberToString(entry.decimals)

\* one pass of the loop over the window: totals is the Map in insertion order
totalsAdd(totals, entry) ==
    IF \E k \in 1..Len(totals) : totals[k].key = totalsKey(entry)
    THEN [k \in 1..Len(totals) |->
            IF totals[k].key = totalsKey(entry)
            THEN [totals[k] EXCEPT !.amountAtomic = @ + entry.amountAtomic]
            ELSE totals[k]]
    ELSE Append(totals, [key |-> totalsKey(entry), asset |-> entry.asset,
                         decimals |-> entry.decimals, amountAtomic |-> entry.amountAtomic])

RECURSIVE rollingTotals(_)
\* for (const entry of settlementWindow) ...
rollingTotals(window) ==
    IF window = <<>> THEN <<>>
    ELSE totalsAdd(rollingTotals(SubSeq(window, 1, Len(window) - 1)), window[Len(window)])

\* a variant of recordSettlement: the window is replaced by the new entry
recordSettlementReplacing(window, now, asset, decimals, amountAtomic) ==
    LET pushed == <<SettlementEntry(now, asset, decimals, amountAtomic)>>
        pruned == pruneSettlementWindow(pushed, now)
    IN [window |-> pruned, totals |-> rollingTotals(pruned), count |-> Len(pruned)]

\* a variant of recordSettlement: a total is the first entry of its key
\* itself, not a copy of it, so that the sums are written into that entry
recordSettlementSharingEntries(window, now, asset, decimals, amountAtomic) ==
    LET pushed == Append(window, SettlementEntry(now, asset, decimals, amountAtomic))
        pruned == pruneSettlementWindow(pushed, now)
        totals == rollingTotals(pruned)
        isFirst(k) == \A j \in 1..(k - 1) : totalsKey(pruned[j]) # totalsKey(pruned[k])
        totalOf(k) == totals[CHOOSE t \in 1..Len(totals) : totals[t].key = totalsKey(pruned[k])]
    IN [window |-> [k \in 1..Len(pruned) |->
                      IF isFirst(k)
                      THEN [pruned[k] EXCEPT !.amountAtomic = totalOf(k).amountAtomic]
                      ELSE pruned[k]],
        totals |-> totals, count |-> Len(pruned)]

\* a variant of recordSettlement: the totals computed before the pruning
recordSettlementTotalsFirst(window, now, asset, decimals, amountAtomic) ==
    LET pushed == Append(window, SettlementEntry(now, asset, decimals, amountAtomic))
        pruned == pruneSettlementWindow(pushed, now)
    IN [window |-> pruned, totals |-> rollingTotals(pushed), count |-> Len(pruned)]

\* recordSettlement on the given window: the window it leaves and what it returns
recordSettlement(window, now, asset, decimals, amountAtomic) ==
    LET pushed == Append(window, SettlementEntry(now, asset, decimals, amountAtomic))
        pruned == pruneSettlementWindow(pushed, now)
    IN [window |-> pruned, totals |-> rollingTotals(pruned), count |-> Len(pruned)]

\* the RangeError of BigInt(decimals) for a number that is no integer
bigIntRangeError(decimals) ==
    [kind |-> "Error",
     message |-> <<"The number ">> \o NumberToString(decimals)
                 \o <<" cannot be converted to a BigInt because it is not an integer">>]

NoError == [kind |-> "none", message |-> <<>>]

\* formatVolumeSummary: [ok, error]; it throws what formatAtomicAmount throws
\* for the first total, in the Map's order, that it cannot format
formatVolumeSummary(totals) ==
    LET bad == {k \in 1..Len(totals) :
                  ~formatAtomicAmount(totals[k].amountAtomic, totals[k].decimals).ok}
        first == CHOOSE k \in bad : \A j \in bad : k <= j
    IN IF bad = {} THEN [ok |-> TRUE, error |-> NoError]
       ELSE [ok |-> FALSE, error |-> bigIntRangeError(totals[first].decimals)]

(***************************************************************************)
(* The telemetry of a verification and of a settlement.                    *)
(***************************************************************************)
\* logVerificationEvent: [ok, error]; it changes no state of the program
logVerificationEvent(paymentRequirements) ==
    LET info == resolveAssetInfo(paymentRequirements)
        amountAtomic == safeParseAtomic(paymentRequirements.maxAmountRequired)
    IN IF amountAtomic.ok /\ ~formatAtomicAmount(amountAtomic.value, info.decimals).ok
       THEN [ok |-> FALSE, error |-> bigIntRangeError(info.decimals)]
       ELSE [ok |-> TRUE, error |-> NoError]

NoRecord == [window |-> <<>>, totals |-> <<>>, count |-> 0]

\* a variant of logSettlementEvent: an amount that did not parse is recorded
\* as 0
logSettlementEventRecordsUnparsed(paymentRequirements, window, now) ==
    LET info == resolveAssetInfo(paymentRequirements)
        amountAtomic == safeParseAtomic(paymentRequirements.maxAmountRequired)
        rec == recordSettlement(window, now, info.asset, info.decimals, amountAtomic.value)
        summary == formatVolumeSummary(rec.totals)
    IN IF ~summary.ok
       THEN [recorded |-> TRUE, rec |-> rec, window |-> rec.window,
             ok |-> FALSE, error |-> summary.error]
       ELSE [recorded |-> TRUE, rec |-> rec, window |-> rec.window,
             ok |-> TRUE, error |-> NoError]

\* logSettlementEvent at clock reading now, on the given window: whether it
\* called recordSettlement and what that returned, the window it leaves, and
\* whether it returned (ok) or threw (error)
logSettlementEvent(paymentRequirements, window, now) ==
    LET info == resolveAssetInfo(paymentRequirements)
        amountAtomic == safeParseAtomic(paymentRequirements.maxAmountRequired)
        rec == recordSettlement(window, now, info.asset, info.decimals, amountAtomic.value)
        summary == formatVolumeSummary(rec.totals)
    IN IF ~amountAtomic.ok
       THEN [recorded |-> FALSE, rec |-> NoRecord, window |-> window,
             ok |-> TRUE, error |-> NoError]
       ELSE IF ~summary.ok
       THEN [recorded |-> TRUE, rec |-> rec, window |-> rec.window,
             ok |-> FALSE, error |-> summary.error]
       ELSE IF ~formatAtomicAmount(amountAtomic.value, info.decimals).ok
       THEN [recorded |-> TRUE, rec |-> rec, window |-> rec.window,
             ok |-> FALSE, error |-> bigIntRangeError(info.decimals)]
       ELSE [recorded |-> TRUE, rec |-> rec, window |-> rec.window,
             ok |-> TRUE, error |-> NoError]

(***************************************************************************)
(* The state of the server.                                                *)
(***************************************************************************)
VARIABLES
    \* the enabled networks, in the order of the Set
    allowedNetworks,
    \* network -> the promise cached for it (an index of promises)
    signerCache,
    \* the createSigner invocations so far, in order: the promise of each
    promises,
    \* the requests: each handler's position, input and response
    requests,
    \* the retained settlement entries, oldest insertion first
    settlementWindow,
    \* what the last recordSettlement call was given and returned
    lastRecord,
    \* the number of recordSettlement calls so far
    recordCalls,
    \* whether every recordSettlement call so far had a now at or after that
    \* of the call before it
    nowsNonDecreasing,
    \* the last call of a function of the codec or of the resolver made on
    \* its own: the function, what it was given and what it returned
    evaluation

vars == <<allowedNetworks, signerCache, promises, requests, settlementWindow,
          lastRecord, recordCalls, nowsNonDecreasing, evaluation>>

serverVars == <<allowedNetworks, signerCache, promises, requests>>

\* x402's SupportedSVMNetworks
SupportedSVMNetworks == {"solana", "solana-devnet"}

\* the network identifiers a request may name: the SVM networks and one
\* globally valid network that is no SVM network
NetworkIds == SupportedSVMNetworks \cup {"base"}

\* values of FACILITATOR_NETWORKS that let the server start: no network, one,
\* and both
NetworkConfigurations == {<<>>, <<"solana">>, <<"solana", "solana-devnet">>}

\* the readings of Date.now()
ClockValues == {0, 1, MS_IN_DAY, MS_IN_DAY + 1}

\* the resolved assets and amounts the aggregator is called with
RecordInputs ==
    {[asset |-> <<"A">>, decimals |-> 12, amountAtomic |-> 100],
     [asset |-> <<"A">>, decimals |-> 12, amountAtomic |-> 200],
     [asset |-> <<"A">>, decimals |-> 12, amountAtomic |-> 300],
     [asset |-> <<"A">>, decimals |-> 4, amountAtomic |-> 100],
     [asset |-> <<"A", "|", "2">>, decimals |-> 12, amountAtomic |-> 100],
     [asset |-> <<"B">>, decimals |-> 12, amountAtomic |-> -100]}

NoLastRecord == [called |-> FALSE, now |-> 0, totals |-> <<>>, count |-> 0]

NoEvaluation == [fn |-> "none"]

\* the effect of one recordSettlement call on the window and on the record
\* kept of the calls
Recorded(rec, now) ==
    /\ settlementWindow' = rec.window
    /\ lastRecord' = [called |-> TRUE, now |-> now, totals |-> rec.totals, count |-> rec.count]
    /\ recordCalls' = recordCalls + 1
    /\ nowsNonDecreasing' = (nowsNonDecreasing /\ (lastRecord.called => now >= lastRecord.now))

(***************************************************************************)
(* The network and signer registry.                                        *)
(***************************************************************************)
Range(f) == {f[x] : x \in DOMAIN f}

Error(message) == [kind |-> "Error", message |-> message]

\* allowedNetworks.has(network)
isAllowed(network) == network \in Range(allowedNetworks)

\* a variant of resolveNetwork: any SVM network passes
resolveNetworkAnySvm(network) ==
    IF network \notin SupportedSVMNetworks
    THEN [ok |-> FALSE, network |-> network,
          error |-> Error(<<"Network ", network, " is not enabled for this facilitator">>)]
    ELSE [ok |-> TRUE, network |-> network, error |-> NoError]

\* a variant of resolveNetwork: no test of the enabled set
resolveNetworkUnchecked(network) == [ok |-> TRUE, network |-> network, error |-> NoError]

\* resolveNetwork: [ok, network, error], ok FALSE where it throws
resolveNetwork(network) ==
    IF ~isAllowed(network)
    THEN [ok |-> FALSE, network |-> network,
          error |-> Error(<<"Network ", network, " is not enabled for this facilitator">>)]
    ELSE [ok |-> TRUE, network |-> network, error |-> NoError]

PendingPromise(network) ==
    [network |-> network, state |-> "pending", wallet |-> FALSE, error |-> NoError]

\* a variant of getSigner: the cache holds only signers already created, so a
\* creation in progress is not seen
getSignerResolvedOnly(network) ==
    IF network \notin DOMAIN signerCache \/ promises[signerCache[network]].state = "pending"
    THEN [cache |-> (network :> (Len(promises) + 1)) @@ signerCache,
          promises |-> Append(promises, PendingPromise(network)),
          promise |-> Len(promises) + 1]
    ELSE [cache |-> signerCache, promises |-> promises, promise |-> signerCache[network]]

\* a variant of getSigner: a creation that failed is tried again
getSignerRetryingFailed(network) ==
    IF network \notin DOMAIN signerCache \/ promises[signerCache[network]].state = "rejected"
    THEN [cache |-> [n \in DOMAIN signerCache \cup {network} |->
                       IF n = network THEN Len(promises) + 1 ELSE signerCache[n]],
          promises |-> Append(promises, PendingPromise(network)),
          promise |-> Len(promises) + 1]
    ELSE [cache |-> signerCache, promises |-> promises, promise |-> signerCache[network]]

\* getSigner up to its return: the cache and the createSigner invocations it
\* leaves, and the promise it returns
getSigner(network) ==
    IF network \notin DOMAIN signerCache
    THEN [cache |-> (network :> (Len(promises) + 1)) @@ signerCache,
          promises |-> Append(promises, PendingPromise(network)),
          promise |-> Len(promises) + 1]
    ELSE [cache |-> signerCache, promises |-> promises, promise |-> signerCache[network]]

\* getErrorMessage
getErrorMessage(error) ==
    IF error.kind = "Error" THEN error.message
    ELSE IF error.kind = "string" THEN error.message
    ELSE <<"Unknown error">>

(***************************************************************************)
(* Requests.                                                               *)
(***************************************************************************)
NoResult == [kind |-> "none", ok |-> FALSE]
NoResponse == [status |-> 0, error |-> <<>>, result |-> NoResult, kinds |-> <<>>]
NotDelegated == [called |-> FALSE, returned |-> FALSE, result |-> NoResult, error |-> NoError]

\* what the telemetry reads of a requirement: a plain string asset "A" and
\* an amount "100"; an extra.assetDecimals of 1.5; an amount that is no number
TelemetryShapes ==
    {[asset |-> JsString(<<"A">>), assetDecimals |-> JsUndefined,
      maxAmountRequired |-> JsString(<<"1", "0", "0">>)],
     [asset |-> JsString(<<"A">>), assetDecimals |-> JsNumber(3),
      maxAmountRequired |-> JsString(<<"1", "0", "0">>)],
     [asset |-> JsString(<<"A">>), assetDecimals |-> JsUndefined,
      maxAmountRequired |-> JsString(<<"a", "b", "c">>)]}

Requirements ==
    {Requirement(n, t.asset, t.assetDecimals, t.maxAmountRequired) :
        n \in NetworkIds, t \in TelemetryShapes}

NoRequirement == Requirement("", JsUndefined, JsUndefined, JsUndefined)

\* the body of a POST: whether each schema accepts its part, and the parsed
\* requirements
Bodies ==
    {[requirementsValid |-> TRUE, payloadValid |-> TRUE, requirements |-> r] :
        r \in Requirements}
    \cup {[requirementsValid |-> FALSE, payloadValid |-> TRUE, requirements |-> NoRequirement],
          [requirementsValid |-> TRUE, payloadValid |-> FALSE,
           requirements |-> Requirement("solana", JsUndefined, JsUndefined, JsUndefined)]}

NoBody == [requirementsValid |-> FALSE, payloadValid |-> FALSE, requirements |-> NoRequirement]

IdleRequest ==
    [pc |-> "idle", kind |-> "none", body |-> NoBody, network |-> "", promise |-> 0,
     index |-> 0, kinds |-> <<>>, delegated |-> NotDelegated, response |-> NoResponse,
     responses |-> 0]

\* what the schemas, createSigner, verify and settle throw
RequirementsSchemaError == Error(<<"invalid payment requirements">>)
PayloadSchemaError == Error(<<"invalid payment payload">>)
CreateSignerError == Error(<<"createSigner failed">>)
WalletError == Error(<<"Configured Solana signer does not expose a wallet address">>)

\* how a createSigner promise settles: with a signer that is a wallet, with
\* one that is not, or rejected
SignerOutcomes ==
    {[state |-> "fulfilled", wallet |-> TRUE, error |-> NoError],
     [state |-> "fulfilled", wallet |-> FALSE, error |-> NoError],
     [state |-> "rejected", wallet |-> FALSE, error |-> CreateSignerError]}

\* how verify or settle ends: it returns a result that reports success, one
\* that reports failure, or it throws (an Error, or a value that is none)
DelegateOutcomes ==
    {[threw |-> FALSE, ok |-> TRUE, error |-> NoError],
     [threw |-> FALSE, ok |-> FALSE, error |-> NoError],
     [threw |-> TRUE, ok |-> FALSE, error |-> Error(<<"delegated call failed">>)],
     [threw |-> TRUE, ok |-> FALSE, error |-> [kind |-> "other", message |-> <<>>]]}

\* res.status(status).json(...) and the handler's return
respond(req, status, error, result, kinds) ==
    [req EXCEPT !.pc = "done",
                !.response = [status |-> status, error |-> error, result |-> result,
                              kinds |-> kinds],
                !.responses = @ + 1]

\* a variant of postCatch: the error goes on to the error middleware
postCatchToMiddleware(req, error) == respond(req, 500, <<"Internal server error">>, NoResult, <<>>)

\* the catch block of /verify and of /settle
postCatch(req, error) == respond(req, 400, getErrorMessage(error), NoResult, <<>>)

\* the catch block of /supported
supportedCatch(req, error) == respond(req, 500, getErrorMessage(error), NoResult, <<>>)

\* res.json(result)
postResult(req, result) == respond(req, 200, <<>>, result, <<>>)

(***************************************************************************)
(* Start-up.                                                               *)
(***************************************************************************)
Init ==
    /\ allowedNetworks \in NetworkConfigurations
    /\ signerCache = <<>>
    /\ promises = <<>>
    /\ requests = [i \in 1..MaxRequests |-> IdleRequest]
    /\ settlementWindow = <<>>
    /\ lastRecord = NoLastRecord
    /\ recordCalls = 0
    /\ nowsNonDecreasing = TRUE
    /\ evaluation = NoEvaluation

aggregatorVars == <<settlementWindow, lastRecord, recordCalls, nowsNonDecreasing>>

\* requests are numbered in the order they arrive
Arrives(i) == requests[i].pc = "idle" /\ \A j \in 1..(i - 1) : requests[j].pc # "idle"

(***************************************************************************)
(* POST /verify and POST /settle, up to `await getSigner(network)`.        *)
(***************************************************************************)
\* a variant of PostReceive: the payload is not validated
PostReceiveNoPayloadSchema(i, kind, body) ==
    /\ Arrives(i)
    /\ LET req == [requests[i] EXCEPT !.kind = kind, !.body = body]
           net == resolveNetwork(body.requirements.network)
           got == getSigner(net.network)
       IN IF ~body.requirementsValid
          THEN /\ requests' = [requests EXCEPT ![i] = postCatch(req, RequirementsSchemaError)]
               /\ UNCHANGED <<signerCache, promises>>
          ELSE IF ~net.ok
          THEN /\ requests' = [requests EXCEPT ![i] = postCatch(req, net.error)]
               /\ UNCHANGED <<signerCache, promises>>
          ELSE /\ requests' = [requests EXCEPT ![i] =
                                 [req EXCEPT !.pc = "await_signer", !.network = net.network,
                                             !.promise = got.promise]]
               /\ signerCache' = got.cache
               /\ promises' = got.promises
    /\ UNCHANGED <<allowedNetworks, evaluation, aggregatorVars>>

PostReceive(i, kind, body) ==
    /\ Arrives(i)
    /\ LET req == [requests[i] EXCEPT !.kind = kind, !.body = body]
           net == resolveNetwork(body.requirements.network)
           got == getSigner(net.network)
       IN IF ~body.requirementsValid
          THEN /\ requests' = [requests EXCEPT ![i] = postCatch(req, RequirementsSchemaError)]
               /\ UNCHANGED <<signerCache, promises>>
          ELSE IF ~body.payloadValid
          THEN /\ requests' = [requests EXCEPT ![i] = postCatch(req, PayloadSchemaError)]
               /\ UNCHANGED <<signerCache, promises>>
          ELSE IF ~net.ok
          THEN /\ requests' = [requests EXCEPT ![i] = postCatch(req, net.error)]
               /\ UNCHANGED <<signerCache, promises>>
          ELSE /\ requests' = [requests EXCEPT ![i] =
                                 [req EXCEPT !.pc = "await_signer", !.network = net.network,
                                             !.promise = got.promise]]
               /\ signerCache' = got.cache
               /\ promises' = got.promises
    /\ UNCHANGED <<allowedNetworks, evaluation, aggregatorVars>>

(***************************************************************************)
(* createSigner's promise settles.                                         *)
(***************************************************************************)
CreateSignerSettles(p, outcome) ==
    /\ p \in DOMAIN promises
    /\ promises[p].state = "pending"
    /\ promises' = [promises EXCEPT ![p] = [network |-> promises[p].network,
                                            state |-> outcome.state,
                                            wallet |-> outcome.wallet,
                                            error |-> outcome.error]]
    /\ UNCHANGED <<allowedNetworks, evaluation, signerCache, requests, aggregatorVars>>

Settled(p) == promises[p].state # "pending"

(***************************************************************************)
(* POST /verify from the signer to the call of verify, and from verify's   *)
(* return to the response.                                                 *)
(***************************************************************************)
\* a variant of VerifyResume: one delegated call at a time, the handler goes
\* on when no other request is inside verify or settle
VerifyResumeOneAtATime(i) ==
    /\ requests[i].pc = "await_signer"
    /\ requests[i].kind = "verify"
    /\ Settled(requests[i].promise)
    /\ \A j \in 1..MaxRequests :
          j # i => requests[j].pc \notin {"await_verify", "await_settle"}
    /\ requests' = [requests EXCEPT ![i] =
         IF promises[requests[i].promise].state = "rejected"
         THEN postCatch(requests[i], promises[requests[i].promise].error)
         ELSE [requests[i] EXCEPT !.pc = "await_verify", !.delegated.called = TRUE]]
    /\ UNCHANGED <<allowedNetworks, evaluation, signerCache, promises, aggregatorVars>>

VerifyResume(i) ==
    /\ requests[i].pc = "await_signer"
    /\ requests[i].kind = "verify"
    /\ Settled(requests[i].promise)
    /\ requests' = [requests EXCEPT ![i] =
         IF promises[requests[i].promise].state = "rejected"
         THEN postCatch(requests[i], promises[requests[i].promise].error)
         ELSE [requests[i] EXCEPT !.pc = "await_verify", !.delegated.called = TRUE]]
    /\ UNCHANGED <<allowedNetworks, evaluation, signerCache, promises, aggregatorVars>>

\* a variant of VerifyReturns: the verification is recorded as a settlement
VerifyReturnsRecording(i, outcome) ==
    /\ requests[i].pc = "await_verify"
    /\ LET result == [kind |-> "verify", ok |-> outcome.ok]
           req == [requests[i] EXCEPT !.delegated.returned = ~outcome.threw,
                                      !.delegated.result = IF outcome.threw THEN NoResult
                                                           ELSE result,
                                      !.delegated.error = outcome.error]
           logged == logSettlementEvent(requests[i].body.requirements, settlementWindow, 0)
       IN /\ requests' = [requests EXCEPT ![i] =
               IF outcome.threw THEN postCatch(req, outcome.error)
               ELSE IF ~logged.ok THEN postCatch(req, logged.error)
               ELSE postResult(req, result)]
          /\ IF ~outcome.threw /\ logged.recorded
             THEN Recorded(logged.rec, 0)
             ELSE UNCHANGED aggregatorVars
    /\ UNCHANGED <<allowedNetworks, evaluation, signerCache, promises>>

VerifyReturns(i, outcome) ==
    /\ requests[i].pc = "await_verify"
    /\ LET result == [kind |-> "verify", ok |-> outcome.ok]
           req == [requests[i] EXCEPT !.delegated.returned = ~outcome.threw,
                                      !.delegated.result = IF outcome.threw THEN NoResult
                                                           ELSE result,
                                      !.delegated.error = outcome.error]
           logged == logVerificationEvent(requests[i].body.requirements)
       IN requests' = [requests EXCEPT ![i] =
            IF outcome.threw THEN postCatch(req, outcome.error)
            ELSE IF ~logged.ok THEN postCatch(req, logged.error)
            ELSE postResult(req, result)]
    /\ UNCHANGED <<allowedNetworks, evaluation, signerCache, promises, aggregatorVars>>

(***************************************************************************)
(* POST /settle from the signer to the call of settle, and from settle's   *)
(* return to the response.                                                 *)
(***************************************************************************)
\* a variant of SettleResume: no test of isSvmSignerWallet
SettleResumeNoWalletTest(i) ==
    /\ requests[i].pc = "await_signer"
    /\ requests[i].kind = "settle"
    /\ Settled(requests[i].promise)
    /\ requests' = [requests EXCEPT ![i] =
         IF promises[requests[i].promise].state = "rejected"
         THEN postCatch(requests[i], promises[requests[i].promise].error)
         ELSE [requests[i] EXCEPT !.pc = "await_settle", !.delegated.called = TRUE]]
    /\ UNCHANGED <<allowedNetworks, evaluation, signerCache, promises, aggregatorVars>>

SettleResume(i) ==
    /\ requests[i].pc = "await_signer"
    /\ requests[i].kind = "settle"
    /\ Settled(requests[i].promise)
    /\ requests' = [requests EXCEPT ![i] =
         IF promises[requests[i].promise].state = "rejected"
         THEN postCatch(requests[i], promises[requests[i].promise].error)
         ELSE IF ~promises[requests[i].promise].wallet
         THEN postCatch(requests[i], WalletError)
         ELSE [requests[i] EXCEPT !.pc = "await_settle", !.delegated.called = TRUE]]
    /\ UNCHANGED <<allowedNetworks, evaluation, signerCache, promises, aggregatorVars>>

SettleReturns(i, outcome, now) ==
    /\ requests[i].pc = "await_settle"
    /\ LET result == [kind |-> "settle", ok |-> outcome.ok]
           req == [requests[i] EXCEPT !.delegated.returned = ~outcome.threw,
                                      !.delegated.result = IF outcome.threw THEN NoResult
                                                           ELSE result,
                                      !.delegated.error = outcome.error]
           logged == logSettlementEvent(requests[i].body.requirements, settlementWindow, now)
       IN /\ requests' = [requests EXCEPT ![i] =
               IF outcome.threw THEN postCatch(req, outcome.error)
               ELSE IF ~logged.ok THEN postCatch(req, logged.error)
               ELSE postResult(req, result)]
          /\ IF ~outcome.threw /\ logged.recorded
             THEN Recorded(logged.rec, now)
             ELSE UNCHANGED aggregatorVars
    /\ UNCHANGED <<allowedNetworks, evaluation, signerCache, promises>>

(***************************************************************************)
(* GET /supported: the loop over the enabled networks, one await each.     *)
(***************************************************************************)
SupportedReceive(i) ==
    /\ Arrives(i)
    /\ LET req == [requests[i] EXCEPT !.kind = "supported"]
           got == getSigner(allowedNetworks[1])
       IN IF allowedNetworks = <<>>
          THEN /\ requests' = [requests EXCEPT ![i] = respond(req, 200, <<>>, NoResult, <<>>)]
               /\ UNCHANGED <<signerCache, promises>>
          ELSE /\ requests' = [requests EXCEPT ![i] =
                                 [req EXCEPT !.pc = "await_supported", !.index = 1,
                                             !.network = allowedNetworks[1],
                                             !.promise = got.promise]]
               /\ signerCache' = got.cache
               /\ promises' = got.promises
    /\ UNCHANGED <<allowedNetworks, evaluation, aggregatorVars>>

SupportedResume(i) ==
    /\ requests[i].pc = "await_supported"
    /\ Settled(requests[i].promise)
    /\ LET signer == promises[requests[i].promise]
           kinds == Append(requests[i].kinds,
                           [network |-> requests[i].network, feePayer |-> signer.wallet])
           next == requests[i].index + 1
           got == getSigner(allowedNetworks[next])
       IN IF signer.state = "rejected"
          THEN /\ requests' = [requests EXCEPT ![i] = supportedCatch(requests[i], signer.error)]
               /\ UNCHANGED <<signerCache, promises>>
          ELSE IF next > Len(allowedNetworks)
          THEN /\ requests' = [requests EXCEPT ![i] =
                                 respond([requests[i] EXCEPT !.kinds = kinds],
                                         200, <<>>, NoResult, kinds)]
               /\ UNCHANGED <<signerCache, promises>>
          ELSE /\ requests' = [requests EXCEPT ![i] =
                                 [requests[i] EXCEPT !.kinds = kinds, !.index = next,
                                                     !.network = allowedNetworks[next],
                                                     !.promise = got.promise]]
               /\ signerCache' = got.cache
               /\ promises' = got.promises
    /\ UNCHANGED <<allowedNetworks, evaluation, aggregatorVars>>

(***************************************************************************)
(* The server.                                                             *)
(***************************************************************************)
Next ==
    \/ \E i \in 1..MaxRequests, kind \in {"verify", "settle"}, body \in Bodies :
          PostReceive(i, kind, body)
    \/ \E p \in 1..Len(promises), outcome \in SignerOutcomes : CreateSignerSettles(p, outcome)
    \/ \E i \in 1..MaxRequests : VerifyResume(i)
    \/ \E i \in 1..MaxRequests, outcome \in DelegateOutcomes : VerifyReturns(i, outcome)
    \/ \E i \in 1..MaxRequests : SettleResume(i)
    \/ \E i \in 1..MaxRequests, outcome \in DelegateOutcomes, now \in ClockValues :
          SettleReturns(i, outcome, now)
    \/ \E i \in 1..MaxRequests : SupportedReceive(i)
    \/ \E i \in 1..MaxRequests : SupportedResume(i)

Spec == Init /\ [][Next]_vars

(***************************************************************************)
(* The server under the scheduling of the event loop: the continuation of  *)
(* a handler that awaits a promise runs once the promise has settled.      *)
(* Nothing is assumed of createSigner, verify and settle: each may never   *)
(* return.                                                                 *)
(***************************************************************************)
Resumes(i) == VerifyResume(i) \/ SettleResume(i) \/ SupportedResume(i)

SpecLive == Init /\ [][Next]_vars /\ \A i \in 1..MaxRequests : WF_vars(Resumes(i))

(***************************************************************************)
(* The aggregator alone: a sequence of recordSettlement calls.             *)
(***************************************************************************)
RecordCall(now, input) ==
    /\ recordCalls < MaxRecords
    /\ Recorded(recordSettlement(settlementWindow, now, input.asset, input.decimals,
                                 input.amountAtomic), now)
    /\ UNCHANGED <<serverVars, evaluation>>

NextRecord == \E now \in ClockValues, input \in RecordInputs : RecordCall(now, input)

InitRecord == Init /\ allowedNetworks = <<"solana">>

SpecRecord == InitRecord /\ [][NextRecord]_vars

(***************************************************************************)
(* The amount codec alone: calls of formatAtomicAmount.                    *)
(***************************************************************************)
\* the amounts formatAtomicAmount is called with
FormatAmounts ==
    {0, 1, -1, 5, 10, 100, 999999, 1000000, 1000001, 1200000, 1234567, 500000, -500000,
     123456789, 2147483647, -2147483647}

\* the decimals it is called with: -1, 0, 1, 1.5, 2, 6 and 9
FormatDecimals == {-2, 0, 2, 3, 4, 12, 18}

FormatCall(amountAtomic, decimals) ==
    /\ evaluation' = [fn |-> "formatAtomicAmount", amountAtomic |-> amountAtomic,
                      decimals |-> decimals,
                      result |-> formatAtomicAmount(amountAtomic, decimals)]
    /\ UNCHANGED <<serverVars, aggregatorVars>>

NextFormat ==
    \E amountAtomic \in FormatAmounts, decimals \in FormatDecimals :
        FormatCall(amountAtomic, decimals)

SpecFormat == InitRecord /\ [][NextFormat]_vars

(***************************************************************************)
(* The asset resolver alone: calls of resolveAssetInfo.                    *)
(***************************************************************************)
\* values of a decimals field: absent, null, the numbers 9, 2, 0, -1 and
\* 1.5, and a string
DecimalsValues ==
    {JsUndefined, JsNull, JsNumber(18), JsNumber(4), JsNumber(0), JsNumber(-2), JsNumber(3),
     JsString(<<"9">>)}

\* values of the address of a structured asset
AddressValues == {JsUndefined, JsNull, JsString(<<"A">>), JsString(<<>>), JsNumber(14)}

\* values of the asset field: absent, null, strings (empty, blank, "A",
\* " A"), and objects with and without an address key
AssetValues ==
    {JsUndefined, JsNull, JsString(<<>>), JsString(<<" ">>), JsString(<<"A">>),
     JsString(<<" ", "A">>)}
    \cup {JsAsset(TRUE, a, d) : a \in AddressValues, d \in DecimalsValues}
    \cup {JsAsset(FALSE, JsUndefined, d) : d \in DecimalsValues}

ResolveCall(asset, assetDecimals) ==
    /\ evaluation' = [fn |-> "resolveAssetInfo", asset |-> asset,
                      assetDecimals |-> assetDecimals,
                      result |-> resolveAssetInfo(
                                    Requirement("solana", asset, assetDecimals,
                                                JsString(<<"1">>)))]
    /\ UNCHANGED <<serverVars, aggregatorVars>>

NextResolve ==
    \E asset \in AssetValues, assetDecimals \in DecimalsValues :
        ResolveCall(asset, assetDecimals)

SpecResolve == InitRecord /\ [][NextResolve]_vars

(***************************************************************************)
(* Properties.                                                             *)
(***************************************************************************)
RequestIds == 1..MaxRequests

IsMember(id) == \E k \in 1..Len(allowedNetworks) : allowedNetworks[k] = id

NotEnabledMessage(id) == <<"Network ", id, " is not enabled for this facilitator">>

\* the createSigner invocations for network n
CreationsFor(n) == {p \in 1..Len(promises) : promises[p].network = n}

\* request i is waiting for, or has got, a signer
HoldsPromise(i) == requests[i].promise # 0

\* C1: createSigner is invoked at most once per network, whatever the
\* interleaving of the requests; every request that asked for a network's
\* signer holds the one promise created for that network, which is the one
\* the cache holds.
C1_CreateSignerOncePerNetwork ==
    /\ \A n \in NetworkIds : Cardinality(CreationsFor(n)) <= 1
    /\ \A n \in DOMAIN signerCache : CreationsFor(n) = {signerCache[n]}
    /\ \A i \in RequestIds :
          HoldsPromise(i) => /\ requests[i].promise \in 1..Len(promises)
                             /\ promises[requests[i].promise].network = requests[i].network
                             /\ signerCache[requests[i].network] = requests[i].promise
    /\ \A i, j \in RequestIds :
          (HoldsPromise(i) /\ HoldsPromise(j) /\ requests[i].network = requests[j].network)
              => requests[i].promise = requests[j].promise

\* C1 witness: two requests called getSigner for the same network before its
\* creation completed, and createSigner was invoked once.
C1_Witness ==
    \E i, j \in RequestIds :
        /\ i # j
        /\ requests[i].pc \in {"await_signer", "await_supported"}
        /\ requests[j].pc \in {"await_signer", "await_supported"}
        /\ requests[i].network = requests[j].network
        /\ requests[i].promise = requests[j].promise
        /\ promises[requests[i].promise].state = "pending"
        /\ Cardinality(CreationsFor(requests[i].network)) = 1

\* a POST whose body passed both schemas
Parsed(i) ==
    /\ requests[i].kind \in {"verify", "settle"}
    /\ requests[i].body.requirementsValid
    /\ requests[i].body.payloadValid

\* C2 (state part): resolveNetwork fails with the 'not enabled' error for
\* every identifier outside the enabled set and returns every member
\* unchanged; a request naming a network outside the set ends with that
\* error before any signer is asked for, and one naming a member goes on
\* with that network.
C2_ResolveNetworkState ==
    /\ \A id \in NetworkIds :
          IF IsMember(id)
          THEN resolveNetwork(id).ok /\ resolveNetwork(id).network = id
          ELSE /\ ~resolveNetwork(id).ok
               /\ getErrorMessage(resolveNetwork(id).error) = NotEnabledMessage(id)
    /\ \A i \in RequestIds :
          Parsed(i) =>
             IF IsMember(requests[i].body.requirements.network)
             THEN requests[i].network = requests[i].body.requirements.network
             ELSE /\ requests[i].pc = "done"
                  /\ requests[i].response.status = 400
                  /\ requests[i].response.error
                        = NotEnabledMessage(requests[i].body.requirements.network)
                  /\ requests[i].promise = 0
                  /\ ~requests[i].delegated.called

\* C2: the state part always holds, and no step changes the enabled set.
C2_ResolveNetwork ==
    [](C2_ResolveNetworkState) /\ [][allowedNetworks' = allowedNetworks]_vars

\* C2 witness: "solana-devnet", a valid network name, is not enabled, and a
\* request naming it was refused, while a request naming the enabled network
\* went on.
C2_Witness ==
    /\ ~IsMember("solana-devnet")
    /\ \E i, j \in RequestIds :
          /\ Parsed(i)
          /\ requests[i].body.requirements.network = "solana-devnet"
          /\ requests[i].response.status = 400
          /\ Parsed(j)
          /\ requests[j].body.requirements.network = "solana"
          /\ requests[j].network = "solana"
          /\ requests[j].promise # 0

\* every retained entry is at most 24h older than the now of the last call
AllWithinDay ==
    \A k \in 1..Len(settlementWindow) :
        settlementWindow[k].timestamp >= lastRecord.now - MS_IN_DAY

RECURSIVE SumOf(_, _, _)
\* the sum of amountAtomic over the entries of window with the given pair
SumOf(window, asset, decimals) ==
    IF window = <<>> THEN 0
    ELSE (IF Head(window).asset = asset /\ Head(window).decimals = decimals
          THEN Head(window).amountAtomic ELSE 0)
         + SumOf(Tail(window), asset, decimals)

\* the totals returned for the given pair
TotalsFor(asset, decimals) ==
    {k \in 1..Len(lastRecord.totals) :
        lastRecord.totals[k].asset = asset /\ lastRecord.totals[k].decimals = decimals}

RetainedPairs == {<<settlementWindow[k].asset, settlementWindow[k].decimals>> :
                    k \in 1..Len(settlementWindow)}

\* C4: what record returns is a function of the window it leaves: one total
\* for each pair (asset, decimals) that has a retained entry, equal to the sum
\* of amountAtomic over exactly the retained entries of that pair, no total
\* for any other pair, and count the number of retained entries.
C4_TotalsOfRetainedEntries ==
    lastRecord.called =>
        /\ lastRecord.count = Len(settlementWindow)
        /\ \A pair \in RetainedPairs :
              /\ Cardinality(TotalsFor(pair[1], pair[2])) = 1
              /\ \A k \in TotalsFor(pair[1], pair[2]) :
                    lastRecord.totals[k].amountAtomic
                        = SumOf(settlementWindow, pair[1], pair[2])
        /\ \A k \in 1..Len(lastRecord.totals) :
              <<lastRecord.totals[k].asset, lastRecord.totals[k].decimals>> \in RetainedPairs

\* C4 witness: entries of 100, 200 and 300 for one pair are retained, and the
\* call returned the total 600 and the count 3.
C4_Witness ==
    /\ Len(settlementWindow) = 3
    /\ settlementWindow[1].amountAtomic = 100
    /\ settlementWindow[2].amountAtomic = 200
    /\ settlementWindow[3].amountAtomic = 300
    /\ Len(lastRecord.totals) = 1
    /\ lastRecord.totals[1].amountAtomic = 600
    /\ lastRecord.count = 3

\* asset strings and decimals values, with and without the separator and the
\* digits of the key in them
KeyAssets ==
    {<<"A">>, <<"B">>, <<"A", "|">>, <<"A", "|", "2">>, <<"A", "|", "6">>, <<"A", "6">>,
     <<"|">>, <<>>, <<"A", "|", "1", ".", "5">>}
KeyDecimals == {-2, 0, 1, 3, 4, 12, 13, 24}

\* the key separates any two pairs that differ, and only those
KeysSeparatePairs ==
    \A a1 \in KeyAssets, a2 \in KeyAssets, d1 \in KeyDecimals, d2 \in KeyDecimals :
        (totalsKey(SettlementEntry(0, a1, d1, 0)) = totalsKey(SettlementEntry(0, a2, d2, 0)))
            <=> (a1 = a2 /\ d1 = d2)

\* C5: two retained entries are summed into the same total exactly when they
\* have the same asset and the same decimals: the totals returned have one
\* key each, an entry's key is that of a total with the entry's asset and
\* decimals, and entries with the same asset and different decimals have
\* different totals.
C5_TotalsNeverMergeDecimals ==
    /\ KeysSeparatePairs
    /\ lastRecord.called =>
          /\ \A k, j \in 1..Len(lastRecord.totals) :
                (lastRecord.totals[k].key = lastRecord.totals[j].key) <=> (k = j)
          /\ \A e \in 1..Len(settlementWindow), f \in 1..Len(settlementWindow) :
                (\E k \in 1..Len(lastRecord.totals) :
                     /\ lastRecord.totals[k].key = totalsKey(settlementWindow[e])
                     /\ lastRecord.totals[k].key = totalsKey(settlementWindow[f]))
                   <=> (/\ settlementWindow[e].asset = settlementWindow[f].asset
                        /\ settlementWindow[e].decimals = settlementWindow[f].decimals)

\* C5 witness: two retained entries of the same asset with different
\* decimals, and two totals returned for them.
C5_Witness ==
    /\ Len(settlementWindow) = 2
    /\ settlementWindow[1].asset = settlementWindow[2].asset
    /\ settlementWindow[1].decimals # settlementWindow[2].decimals
    /\ Len(lastRecord.totals) = 2
    /\ lastRecord.totals[1].asset = lastRecord.totals[2].asset

\* request i takes a step
Steps(i) == requests'[i] # requests[i]

\* the amount of request i's requirements does not parse
AmountUnparsed(i) == ~safeParseAtomic(requests[i].body.requirements.maxAmountRequired).ok

\* request i got the result of its delegated call as a successful response
GotResult(i) ==
    /\ requests[i].pc = "done"
    /\ requests[i].responses = 1
    /\ requests[i].response.status = 200
    /\ requests[i].delegated.returned
    /\ requests[i].response.result = requests[i].delegated.result

\* C6: when settle returns for a /settle request whose maxAmountRequired does
\* not parse, the caller receives the settlement receipt as a successful
\* response and the settlement window is what it was before.
C6_UnparsedAmountLeavesWindow ==
    [][\A i \in RequestIds :
          (/\ requests[i].pc = "await_settle"
           /\ Steps(i)
           /\ requests'[i].delegated.returned
           /\ AmountUnparsed(i))
             => (/\ GotResult(i)'
                 /\ settlementWindow' = settlementWindow
                 /\ recordCalls' = recordCalls)]_vars

\* C6 witness: a /settle request with an amount that does not parse got its
\* receipt, with an earlier settlement in the window.
C6_Witness ==
    \E i \in RequestIds :
        /\ requests[i].kind = "settle"
        /\ AmountUnparsed(i)
        /\ GotResult(i)
        /\ requests[i].delegated.result.ok
        /\ Len(settlementWindow) = 1
        /\ recordCalls = 1

\* the /settle requests whose settle call reported success, with an amount
\* that parses
SuccessfulSettlements ==
    {i \in RequestIds :
        /\ requests[i].kind = "settle"
        /\ requests[i].delegated.returned
        /\ requests[i].delegated.result.ok
        /\ ~AmountUnparsed(i)}

\* C7 as stated: the number of entries ever appended to the window is the
\* number of /settle requests whose settle call reported success (with an
\* amount that parses); none is appended for a settle that failed, by
\* throwing or by returning an unsuccessful result.
C7_Original == recordCalls = Cardinality(SuccessfulSettlements)

\* the message a thrown value carries, where it carries one
CarriesMessage(i, error) ==
    /\ requests[i].response.status = 400
    /\ error.kind \in {"Error", "string"} => requests[i].response.error = error.message

\* C8: every /verify and /settle request that has ended sent exactly one
\* response, with status 200 or 400; a failure of either schema, of the
\* network resolution, of the signer's creation, of the wallet test or of the
\* delegated call ends it with status 400 and the message of that failure;
\* a request that has not ended has sent nothing.
C8_FailuresAreClientErrors ==
    \A i \in RequestIds :
        requests[i].kind \in {"verify", "settle"} =>
            /\ requests[i].pc \in {"await_signer", "await_verify", "await_settle", "done"}
            /\ requests[i].pc # "done" => requests[i].responses = 0
            /\ requests[i].pc = "done" =>
                  /\ requests[i].responses = 1
                  /\ requests[i].response.status \in {200, 400}
                  /\ requests[i].response.status = 200 => GotResult(i)
                  /\ ~requests[i].body.requirementsValid
                        => CarriesMessage(i, RequirementsSchemaError)
                  /\ (requests[i].body.requirementsValid /\ ~requests[i].body.payloadValid)
                        => CarriesMessage(i, PayloadSchemaError)
                  /\ (Parsed(i) /\ ~IsMember(requests[i].body.requirements.network))
                        => CarriesMessage(i, Error(NotEnabledMessage(
                                                requests[i].body.requirements.network)))
                  /\ (HoldsPromise(i) /\ promises[requests[i].promise].state = "rejected")
                        => CarriesMessage(i, promises[requests[i].promise].error)
                  /\ (/\ requests[i].kind = "settle"
                      /\ HoldsPromise(i)
                      /\ promises[requests[i].promise].state = "fulfilled"
                      /\ ~promises[requests[i].promise].wallet)
                        => CarriesMessage(i, WalletError)
                  /\ (requests[i].delegated.called /\ ~requests[i].delegated.returned)
                        => CarriesMessage(i, requests[i].delegated.error)

\* C8 witness: a request whose delegated call threw ended with status 400 and
\* the thrown message, and the request after it was served.
C8_Witness ==
    /\ requests[1].pc = "done"
    /\ requests[1].delegated.called
    /\ requests[1].delegated.error.kind = "Error"
    /\ requests[1].response.status = 400
    /\ requests[1].response.error = requests[1].delegated.error.message
    /\ GotResult(2)

\* C9: no step of a /verify request changes the settlement window, and a
\* /verify request that ends in success responds with the result of the
\* delegated verify call, unchanged.
C9_VerifyLeavesWindow ==
    [][\A i \in RequestIds :
          (Steps(i) /\ requests'[i].kind = "verify")
             => (/\ settlementWindow' = settlementWindow
                 /\ recordCalls' = recordCalls
                 /\ (requests'[i].pc = "done" /\ requests'[i].response.status = 200)
                       => GotResult(i)')]_vars

\* C9 witness: a /verify request ended in success with the result of verify,
\* while the window held a settlement.
C9_Witness ==
    \E i \in RequestIds :
        /\ requests[i].kind = "verify"
        /\ GotResult(i)
        /\ requests[i].response.result.kind = "verify"
        /\ Len(settlementWindow) = 1

\* request i is a /settle request whose signer was created and is no wallet
SignerIsNoWallet(i) ==
    /\ requests[i].kind = "settle"
    /\ HoldsPromise(i)
    /\ promises[requests[i].promise].state = "fulfilled"
    /\ ~promises[requests[i].promise].wallet

\* C10 (state part): a /settle request whose signer is no wallet never has
\* settle called, and once it has gone on from the signer it has ended with
\* status 400 and the configuration-error message.
C10_NoWalletState ==
    \A i \in RequestIds :
        SignerIsNoWallet(i) =>
            /\ ~requests[i].delegated.called
            /\ requests[i].pc \in {"await_signer", "done"}
            /\ requests[i].pc = "done" =>
                  /\ requests[i].response.status = 400
                  /\ requests[i].response.error = WalletError.message

\* C10: the state part always holds, and no step of such a request changes
\* the settlement window.
C10_NoWalletNoSettle ==
    /\ [](C10_NoWalletState)
    /\ [][\A i \in RequestIds :
            (Steps(i) /\ SignerIsNoWallet(i))
               => (settlementWindow' = settlementWindow /\ recordCalls' = recordCalls)]_vars

\* C10 witness: a /settle request ended with the configuration error, settle
\* not called, while the window held a settlement.
C10_Witness ==
    \E i \in RequestIds :
        /\ SignerIsNoWallet(i)
        /\ requests[i].pc = "done"
        /\ requests[i].response.error = WalletError.message
        /\ Len(settlementWindow) = 1

\* the value of a fixed-point numeral with at most `places` fraction digits,
\* in units of 10^-places: -1 where text is no such numeral in its shortest
\* form (no sign, no leading zero of the whole part but a lone "0", no
\* trailing zero of the fraction, no separator without a fraction)
FixedPointValue(text, places) ==
    LET dots == {k \in 1..Len(text) : text[k] = "."}
        dot == IF dots = {} THEN Len(text) + 1 ELSE CHOOSE k \in dots : TRUE
        whole == SubSeq(text, 1, dot - 1)
        fraction == SubSeq(text, dot + 1, Len(text))
    IN IF /\ Cardinality(dots) <= 1
          /\ AllDigits(whole, 10)
          /\ (Len(whole) > 1 => whole[1] # "0")
          /\ (dots # {} => (AllDigits(fraction, 10) /\ fraction[Len(fraction)] # "0"))
          /\ Len(fraction) <= places
       THEN DigitsValue(whole, 10) * Pow10(places)
            + DigitsValue(fraction, 10) * Pow10(places - Len(fraction))
       ELSE -1

\* text is the shortest fixed-point numeral of amountAtomic / 10^places, with
\* a leading "-" exactly when the amount is negative
IsExactNumeral(text, amountAtomic, places) ==
    IF amountAtomic < 0
    THEN /\ text # <<>>
         /\ Head(text) = "-"
         /\ FixedPointValue(Tail(text), places) = -amountAtomic
    ELSE FixedPointValue(text, places) = amountAtomic

\* C11: formatAtomicAmount is exact: for decimals <= 0 it returns the integer
\* as it is, and for a positive whole number of decimals it returns the
\* shortest fixed-point numeral whose value is exactly the amount divided by
\* 10^decimals, with "-" before it for a negative amount; 1234567, 1000000, 0
\* and -500000 with 6 decimals give "1.234567", "1", "0" and "-0.5".
C11_FormatAtomicExact ==
    /\ formatAtomicAmount(1234567, 12).text = <<"1", ".", "2", "3", "4", "5", "6", "7">>
    /\ formatAtomicAmount(1000000, 12).text = <<"1">>
    /\ formatAtomicAmount(0, 12).text = <<"0">>
    /\ formatAtomicAmount(-500000, 12).text = <<"-", "0", ".", "5">>
    /\ (evaluation.fn = "formatAtomicAmount"
           /\ (evaluation.decimals <= 0 \/ IsInteger(evaluation.decimals)))
          => /\ evaluation.result.ok
             /\ IsExactNumeral(evaluation.result.text, evaluation.amountAtomic,
                               IF evaluation.decimals <= 0 THEN 0
                               ELSE evaluation.decimals \div 2)

\* C11 witness: 1000001 was formatted with 6 decimals as "1.000001".
C11_Witness ==
    /\ evaluation.fn = "formatAtomicAmount"
    /\ evaluation.amountAtomic = 1000001
    /\ evaluation.decimals = 12
    /\ evaluation.result.text = <<"1", ".", "0", "0", "0", "0", "0", "1">>

\* the asset field is a structured asset with an address key
IsStructured(asset) == asset.type = "object" /\ asset.hasAddress

\* the asset field is a string with more than white space in it
IsPlainString(asset) ==
    asset.type = "string" /\ \E k \in 1..Len(asset.text) : asset.text[k] # " "

\* C12: resolveAssetInfo keeps the precedence: a numeric extra.assetDecimals
\* is the resulting decimals in all three branches, also over a structured
\* asset's own decimals; without it a structured asset's numeric decimals
\* are the result, and 6 where there is neither; a structured asset with an
\* address key gives that address as a string ("unknown" for an absent
\* one), a string asset that is not blank gives itself, and a missing, null,
\* empty or blank asset, or an object without an address key, gives
\* "unknown".
C12_ResolveAssetPrecedence ==
    /\ resolveAssetInfo(Requirement("solana", JsAsset(TRUE, JsString(<<"A">>), JsNumber(4)),
                                    JsNumber(18), JsString(<<"1">>)))
          = [asset |-> <<"A">>, decimals |-> 18]
    /\ evaluation.fn = "resolveAssetInfo" =>
          /\ evaluation.result.decimals
                = IF evaluation.assetDecimals.type = "number"
                    THEN evaluation.assetDecimals.num
                  ELSE IF IsStructured(evaluation.asset)
                          /\ evaluation.asset.decimals.type = "number"
                    THEN evaluation.asset.decimals.num
                  ELSE 2 * 6
          /\ IsStructured(evaluation.asset) =>
                evaluation.result.asset
                    = IF evaluation.asset.address.type \in {"undefined", "null"}
                      THEN <<"u", "n", "k", "n", "o", "w", "n">>
                      ELSE IF evaluation.asset.address.type = "number"
                      THEN NumberToString(evaluation.asset.address.num)
                      ELSE evaluation.asset.address.text
          /\ (~IsStructured(evaluation.asset) /\ IsPlainString(evaluation.asset)) =>
                evaluation.result.asset = evaluation.asset.text
          /\ (~IsStructured(evaluation.asset) /\ ~IsPlainString(evaluation.asset)) =>
                evaluation.result.asset = <<"u", "n", "k", "n", "o", "w", "n">>

\* C12 witness: a structured asset with address "A" and decimals 2 was
\* resolved under the override 9, to "A" with 9 decimals.
C12_Witness ==
    /\ evaluation.fn = "resolveAssetInfo"
    /\ evaluation.asset = JsAsset(TRUE, JsString(<<"A">>), JsNumber(4))
    /\ evaluation.assetDecimals = JsNumber(18)
    /\ evaluation.result = [asset |-> <<"A">>, decimals |-> 18]

\* a decimals value (the number h / 2) is a non-negative integer
IsCanonicalDecimals(h) == h >= 0 /\ IsInteger(h)

\* C13 as stated: the decimals of every asset resolveAssetInfo returns, and
\* of every entry in the settlement window, are a non-negative integer.
C13_Original ==
    /\ evaluation.fn = "resolveAssetInfo" => IsCanonicalDecimals(evaluation.result.decimals)
    /\ \A k \in 1..Len(settlementWindow) : IsCanonicalDecimals(settlementWindow[k].decimals)

\* the delegated call of request i returns or throws
DelegateReturns(i) ==
    \/ \E outcome \in DelegateOutcomes : VerifyReturns(i, outcome)
    \/ \E outcome \in DelegateOutcomes, now \in ClockValues : SettleReturns(i, outcome, now)

\* the creation of the signer of network n ends
CreationEnds(n) ==
    \E p \in 1..Len(promises), outcome \in SignerOutcomes :
        promises[p].network = n /\ CreateSignerSettles(p, outcome)

\* C14: a request blocks only itself: whatever the other requests do, also
\* when their delegated calls or the signer creation of another network
\* never return, a /verify or /settle request on network n whose own
\* delegated call returns, where the creation of n's signer ends, gets its
\* response; and so does a /supported request whose signer creations all end.
C14_StallBlocksOnlyItself ==
    /\ \A i \in RequestIds, n \in SupportedSVMNetworks :
          (WF_vars(DelegateReturns(i)) /\ WF_vars(CreationEnds(n)))
             => ((requests[i].kind \in {"verify", "settle"} /\ requests[i].network = n)
                    ~> requests[i].pc = "done")
    /\ \A i \in RequestIds :
          (\A n \in SupportedSVMNetworks : WF_vars(CreationEnds(n)))
             => (requests[i].kind = "supported" ~> requests[i].pc = "done")

\* C14 witness: the first request is inside a delegated call that has not
\* returned, and the request that came after it, on the same network, has
\* its response.
C14_Witness ==
    /\ requests[1].pc \in {"await_verify", "await_settle"}
    /\ requests[2].kind \in {"verify", "settle"}
    /\ requests[2].network = requests[1].network
    /\ GotResult(2)

\* request i is a /settle request whose settle call returned a receipt
SettleReturned(i) == requests[i].kind = "settle" /\ requests[i].delegated.returned

\* C15 as stated: once settle has returned a receipt for a /settle request,
\* the response is that receipt and never an error, whatever the resolved
\* decimals, the amount and the content of the window.
C15_Original == \A i \in RequestIds : SettleReturned(i) => GotResult(i)

\* C16 as stated: in every reachable state the settlement window is ordered
\* by timestamp: of two retained entries, the one inserted earlier has the
\* timestamp that is less or equal.
C16_Original ==
    \A k, j \in 1..Len(settlementWindow) :
        k < j => settlementWindow[k].timestamp <= settlementWindow[j].timestamp

\* the retained entries of window from the k-th on
From(window, k) == SubSeq(window, k, Len(window))

\* the entry a /settle request's telemetry appends at clock reading now
EntryOf(i, now) ==
    SettlementEntry(now,
                    resolveAssetInfo(requests[i].body.requirements).asset,
                    resolveAssetInfo(requests[i].body.requirements).decimals,
                    safeParseAtomic(requests[i].body.requirements.maxAmountRequired).value)

\* C17: the append, the pruning and the totals of a record are one step of
\* one /settle request: in a step that changes the window or counts a record
\* call, exactly one request steps, from the return of its settle call to
\* its response; the window after the step is what was retained before it,
\* less a front of entries older than 24h, followed by that request's
\* entry, so that no entry inside the 24h is lost; and the count and totals
\* returned are those of that whole window.
C17_RecordIsAtomic ==
    [][(settlementWindow' # settlementWindow \/ recordCalls' # recordCalls)
         => \E i \in RequestIds :
               /\ requests[i].pc = "await_settle"
               /\ requests'[i].pc = "done"
               /\ \A j \in RequestIds : j # i => requests'[j] = requests[j]
               /\ recordCalls' = recordCalls + 1
               /\ \E k \in 1..(Len(settlementWindow) + 1) :
                     /\ settlementWindow'
                           = Append(From(settlementWindow, k), EntryOf(i, lastRecord'.now))
                     /\ \A m \in 1..(k - 1) :
                           settlementWindow[m].timestamp < lastRecord'.now - MS_IN_DAY
               /\ lastRecord'.count = Len(settlementWindow')
               /\ \A m \in 1..Len(settlementWindow') :
                     \E t \in 1..Len(lastRecord'.totals) :
                        /\ lastRecord'.totals[t].asset = settlementWindow'[m].asset
                        /\ lastRecord'.totals[t].decimals = settlementWindow'[m].decimals
                        /\ lastRecord'.totals[t].amountAtomic
                              = SumOf(settlementWindow', settlementWindow'[m].asset,
                                      settlementWindow'[m].decimals)]_vars

\* C17 witness: two /settle requests of the same asset and amount 100 have
\* both got their receipts and recorded, in either order, and the record
\* that came later returned the count 2 and the total 200.
C17_Witness ==
    /\ \A i \in RequestIds : requests[i].kind = "settle" /\ GotResult(i)
    /\ Len(settlementWindow) = 2
    /\ lastRecord.count = 2
    /\ Len(lastRecord.totals) = 1
    /\ lastRecord.totals[1].amountAtomic = 200

\* C18: an entry is not changed after its insertion: after every record
\* call the last entry of the window is the entry the call was given, and
\* each entry before it has the timestamp, asset, decimals and amountAtomic
\* of the entry of the window before the call that it comes from.
C18_EntriesNeverMutated ==
    [][/\ Len(settlementWindow') >= 1
       /\ \E input \in RecordInputs :
             settlementWindow'[Len(settlementWindow')]
                = SettlementEntry(lastRecord'.now, input.asset, input.decimals,
                                  input.amountAtomic)
       /\ LET kept == Len(settlementWindow') - 1
              gone == Len(settlementWindow) - kept
          IN /\ gone >= 0
             /\ \A k \in 1..kept :
                   /\ settlementWindow'[k].timestamp = settlementWindow[gone + k].timestamp
                   /\ settlementWindow'[k].asset = settlementWindow[gone + k].asset
                   /\ settlementWindow'[k].decimals = settlementWindow[gone + k].decimals
                   /\ settlementWindow'[k].amountAtomic
                         = settlementWindow[gone + k].amountAtomic]_vars

\* C18 witness: entries of 100 and 200 of one pair were summed to the total
\* 300, and the entries still hold 100 and 200.
C18_Witness ==
    /\ Len(settlementWindow) = 2
    /\ settlementWindow[1].amountAtomic = 100
    /\ settlementWindow[2].amountAtomic = 200
    /\ Len(lastRecord.totals) = 1
    /\ lastRecord.totals[1].amountAtomic = 300

\* C19: entries leave the window from its front only, during a record call,
\* and only when more than 24h older than the call's now: the window after
\* the call is the window before it with the new entry appended, less a
\* front whose entries all have timestamp < now - 24h; an entry exactly 24h
\* old and the new entry stay.
C19_OnlyOldFrontEntriesLeave ==
    [][\E gone \in 0..Len(settlementWindow) :
          /\ Len(settlementWindow') = Len(settlementWindow) + 1 - gone
          /\ settlementWindow'[Len(settlementWindow')].timestamp = lastRecord'.now
          /\ From(settlementWindow, gone + 1)
                = SubSeq(settlementWindow', 1, Len(settlementWindow') - 1)
          /\ \A k \in 1..gone :
                settlementWindow[k].timestamp < lastRecord'.now - MS_IN_DAY]_vars

\* C19 witness: the third call, at 24h + 1, removed the entry stamped 0 and
\* kept the entry stamped 1, which is exactly 24h old.
C19_Witness ==
    /\ recordCalls = 3
    /\ lastRecord.now = MS_IN_DAY + 1
    /\ Len(settlementWindow) = 2
    /\ settlementWindow[1].timestamp = 1
    /\ settlementWindow[2].timestamp = MS_IN_DAY + 1

\* the stages a /verify or /settle request has passed
SignerObtained(i) ==
    /\ HoldsPromise(i)
    /\ promises[requests[i].promise].state = "fulfilled"
    /\ requests[i].kind = "settle" => promises[requests[i].promise].wallet

NetworkResolved(i) == Parsed(i) /\ IsMember(requests[i].body.requirements.network)

\* C20 (state part): a request is at the signer only with its requirements
\* and payload parsed and its network resolved, and inside or past the
\* delegated call only with its signer obtained as well; a request whose
\* schema validation or network resolution failed has asked for no signer;
\* a request has sent no response before it ends and one when it has ended.
C20_StagesState ==
    \A i \in RequestIds :
        requests[i].kind \in {"verify", "settle"} =>
            /\ HoldsPromise(i) <=> NetworkResolved(i)
            /\ requests[i].delegated.called => (NetworkResolved(i) /\ SignerObtained(i))
            /\ requests[i].pc \in {"await_verify", "await_settle"}
                  => (requests[i].delegated.called /\ ~requests[i].delegated.returned)
            /\ requests[i].delegated.returned => requests[i].delegated.called
            /\ requests[i].responses = (IF requests[i].pc = "done" THEN 1 ELSE 0)

\* C20 (step part): a request steps forward only: from its arrival to the
\* signer, from the signer to the delegated call, from the delegated call to
\* its response, or from any of these to a failure response; once it has
\* ended it steps no more.
C20_StagesStep ==
    \A i \in RequestIds :
        (Steps(i) /\ requests'[i].kind \in {"verify", "settle"}) =>
            \/ requests[i].pc = "idle" /\ requests'[i].pc \in {"await_signer", "done"}
            \/ /\ requests[i].pc = "await_signer"
               /\ requests'[i].pc \in {IF requests[i].kind = "verify" THEN "await_verify"
                                        ELSE "await_settle", "done"}
            \/ /\ requests[i].pc \in {"await_verify", "await_settle"}
               /\ requests'[i].pc = "done"

\* C20: the state part always holds, every step is a step forward, and a
\* request whose delegated call returns and whose signer creations end gets
\* to its response.
C20_StagesInOrder ==
    /\ [](C20_StagesState)
    /\ [][C20_StagesStep]_vars
    /\ \A i \in RequestIds :
          (WF_vars(DelegateReturns(i)) /\ \A n \in SupportedSVMNetworks : WF_vars(CreationEnds(n)))
             => (requests[i].kind \in {"verify", "settle"}
                    ~> (requests[i].pc = "done" /\ requests[i].responses = 1))

\* C20 witness: a /settle request passed every stage to its receipt, and a
\* request whose payload failed its schema ended with no signer asked for
\* and no delegated call.
C20_Witness ==
    /\ requests[1].kind = "settle"
    /\ GotResult(1)
    /\ SignerObtained(1)
    /\ requests[2].pc = "done"
    /\ ~requests[2].body.payloadValid
    /\ requests[2].response.status = 400
    /\ ~HoldsPromise(2)
    /\ ~requests[2].delegated.called

\* C21: in every reachable state the keys of the signer cache are enabled
\* networks, and createSigner has been invoked for enabled networks only,
\* whatever networks the requests named.
C21_CacheKeysAreEnabled ==
    /\ \A n \in DOMAIN signerCache : IsMember(n)
    /\ \A p \in 1..Len(promises) : IsMember(promises[p].network)
    /\ \A n \in NetworkIds : ~IsMember(n) => CreationsFor(n) = {}

\* C21 witness: requests named "base" and "solana-devnet", which are not
\* enabled, and both were refused; the cache is empty and createSigner was
\* never invoked.
C21_Witness ==
    /\ allowedNetworks = <<"solana">>
    /\ requests[1].body.requirements.network = "base"
    /\ requests[2].body.requirements.network = "solana-devnet"
    /\ \A i \in RequestIds : Parsed(i) /\ requests[i].response.status = 400
    /\ DOMAIN signerCache = {}
    /\ promises = <<>>

\* the creation of the signer of network n has failed
CreationFailed(n) == n \in DOMAIN signerCache /\ promises[signerCache[n]].state = "rejected"

\* request i has ended in an error response
EndedInError(i) ==
    /\ requests[i].pc = "done"
    /\ requests[i].responses = 1
    /\ requests[i].response.status = (IF requests[i].kind = "supported" THEN 500 ELSE 400)

\* C22 (state part): a request that holds the promise of a failed creation
\* has not gone on to a delegated call, and if it has ended it has ended in
\* an error response; no /verify or /settle request on a network whose
\* creation failed, and no /supported request while the creation of an
\* enabled network has failed, has ended in success.
C22_FailedState ==
    \A i \in RequestIds :
        /\ (HoldsPromise(i) /\ promises[requests[i].promise].state = "rejected")
              => /\ ~requests[i].delegated.called
                 /\ requests[i].pc \in {"await_signer", "await_supported", "done"}
                 /\ requests[i].pc = "done" => EndedInError(i)
        /\ (requests[i].pc = "done" /\ requests[i].response.status = 200
               /\ requests[i].kind \in {"verify", "settle"})
              => ~CreationFailed(requests[i].network)
        /\ (requests[i].pc = "done" /\ requests[i].response.status = 200
               /\ requests[i].kind = "supported")
              => \A n \in NetworkIds : IsMember(n) => ~CreationFailed(n)

\* C22 (step part): a cell of the signer cache, once set, keeps its key and
\* its promise, a promise that has settled keeps its outcome, and
\* createSigner is not invoked for a network that has a cell.
C22_CellsStep ==
    /\ \A n \in DOMAIN signerCache :
          n \in DOMAIN signerCache' /\ signerCache'[n] = signerCache[n]
    /\ \A p \in 1..Len(promises) :
          /\ p \in 1..Len(promises')
          /\ promises'[p].network = promises[p].network
          /\ promises[p].state # "pending" => promises'[p] = promises[p]
    /\ \A p \in 1..Len(promises') :
          p > Len(promises) => promises'[p].network \notin DOMAIN signerCache

\* C22: the state and step parts always hold, and a request that holds the
\* promise of a failed creation does end in an error response.
C22_FailedCellStays ==
    /\ [](C22_FailedState)
    /\ [][C22_CellsStep]_vars
    /\ \A i \in RequestIds :
          (HoldsPromise(i) /\ promises[requests[i].promise].state = "rejected")
             ~> EndedInError(i)

\* C22 witness: the one creation of "solana"'s signer failed; a /settle
\* request and a /supported request both ended with its error, and
\* createSigner was invoked once.
C22_Witness ==
    /\ CreationFailed("solana")
    /\ Len(promises) = 1
    /\ requests[1].kind = "settle"
    /\ requests[2].kind = "supported"
    /\ \A i \in RequestIds :
          EndedInError(i) /\ requests[i].response.error = CreateSignerError.message

=============================================================================
